---- MODULE Spec2Model ----
(***************************************************************************)
(* Duplicate-file finder (duplicate_finder/core.py): a directory tree is   *)
(* scanned, files are grouped by the MD5 digest of their content, and the  *)
(* groups are analysed or reduced to their first path.                     *)
(*                                                                         *)
(* Paths are numbered 1..NumFiles in the order os.walk enumerates them:    *)
(* the files of the root directory first (1..RootFiles), then the files    *)
(* of its subdirectory.                                                    *)
(***************************************************************************)
EXTENDS Integers, Sequences, FiniteSets, TLC

\* ------------------------------------------------------------------ bounds
NumFiles == 3
RootFiles == 2
MaxMinSize == 2
MaxEntries == 4
MaxMet == 202
MaxFailed == 2
MaxFlat == 4

Paths == 1..NumFiles

\* --------------------------------------------------------------- contents
\* File contents.  WangA and WangB stand for the two 128-byte blocks of
\* Wang and Yu's MD5 collision: they differ in six bytes and hashlib.md5
\* gives both the digest 79054025255fb1a26e4bc422aef54eb4.
Contents == {"", "X", "Y", "WangA", "WangB"}

\* st_size of a file holding content c
Size(c) ==
    CASE c = "" -> 0
      [] c = "X" -> 1
      [] c = "Y" -> 1
      [] c = "WangA" -> 128
      [] c = "WangB" -> 128

\* hashlib.md5(c).hexdigest()
MD5(c) ==
    CASE c = "" -> "d41d8cd98f00b204e9800998ecf8427e"
      [] c = "X" -> "02129bb861061d1a052c592e2dc6b383"
      [] c = "Y" -> "57cec4137b614c87cb4e24a3d003a3e0"
      [] c = "WangA" -> "79054025255fb1a26e4bc422aef54eb4"
      [] c = "WangB" -> "79054025255fb1a26e4bc422aef54eb4"

None == "None"

\* ------------------------------------------------------------- filesystem
\* One directory entry: listed (os.walk yields it), stat (Path.stat
\* succeeds), read (open/read succeeds), unlink (Path.unlink succeeds).
Regular(c) == [listed |-> TRUE, stat |-> TRUE, read |-> TRUE, unlink |-> TRUE, content |-> c]
Absent == [listed |-> FALSE, stat |-> FALSE, read |-> FALSE, unlink |-> FALSE, content |-> ""]
\* a symbolic link whose target is gone: listed among the files, stat and open fail
Dangling == [listed |-> TRUE, stat |-> FALSE, read |-> FALSE, unlink |-> TRUE, content |-> ""]
\* a file the process may stat but not open
Unreadable(c) == [Regular(c) EXCEPT !.read = FALSE]
\* a file the process may read but not remove
Undeletable(c) == [Regular(c) EXCEPT !.unlink = FALSE]

FileStates ==
    {Absent, Dangling, Unreadable("X"), Undeletable("X")} \cup {Regular(c) : c \in Contents}

Depth(p) == IF p <= RootFiles THEN 0 ELSE 1

\* ------------------------------------------------------------------ state
VARIABLES
    fs,     \* the directory tree: path -> directory entry
    dups,   \* the mapping the caller holds: sequence of [hash, paths], in dict order
    op,     \* the last call
    pre,    \* the directory tree when the last call started
    ret,    \* what the last call returned
    log,    \* the stat and unlink calls of the latest delete_duplicates, in order
    trail,  \* where the caller stands in a scan / delete / rescan sequence
    scan,   \* the locals of find_duplicates, until the next call that touches the tree
    cli,    \* the command-line run: its arguments, position, output and exit status
    report  \* what the latest get_duplicates_report returned

vars == <<fs, dups, op, pre, ret, log, trail, scan, cli, report>>

NoRet == [exc |-> "none", n |-> 0, bytes |-> 0]

\* no report made
NoReport == [exc |-> "none", lines |-> <<>>]

\* no command-line run
NoArgs ==
    [directory |-> "root", recursive |-> TRUE, min_size |-> 1,
     show_size |-> FALSE, dry_run |-> FALSE, delete |-> FALSE, quiet |-> FALSE]
NoCli == [args |-> NoArgs, pc |-> "none", exit |-> 0, exc |-> "none", err |-> "", out |-> <<>>]

\* ------------------------------------------------------- find_duplicates
\* mutant: the digest comes back although the file could not be opened
calculate_file_hash_ignores_failure(f, p) == MD5(f[p].content)

calculate_file_hash(f, p) == IF f[p].read THEN MD5(f[p].content) ELSE None

\* The directory argument: "root" is the directory holding Paths, "missing"
\* names nothing, "file" names a regular file.
Directories == {"root", "missing", "file"}

isdir(directory) == directory = "root"

\* mutant: the traversal finds the tree whatever the argument names
TreeAt_any(directory, f) == f

\* what os.walk(directory) has to enumerate: scandir fails on a path that
\* is no directory, os.walk swallows the error and yields nothing
TreeAt(directory, f) == IF isdir(directory) THEN f ELSE [p \in Paths |-> Absent]

\* mutant: the traversal comes over the root's own files a second time
Walk_revisits_root(f, recursive) ==
    SelectSeq([i \in 1..NumFiles |-> i],
              LAMBDA p : f[p].listed /\ (recursive \/ Depth(p) = 0))
    \o SelectSeq([i \in 1..NumFiles |-> i], LAMBDA p : f[p].listed /\ Depth(p) = 0)

\* mutant: the traversal descends whatever the flag says
Walk_always_descends(f, recursive) ==
    SelectSeq([i \in 1..NumFiles |-> i], LAMBDA p : f[p].listed)

\* the (root, files) pairs of os.walk flattened: existing entries, root first
Walk(f, recursive) ==
    SelectSeq([i \in 1..NumFiles |-> i],
              LAMBDA p : f[p].listed /\ (recursive \/ Depth(p) = 0))

HasKey(d, h) == \E i \in 1..Len(d) : d[i].hash = h

\* mutant: the path is inserted at the front of its group
Append_to_front(d, h, p) ==
    IF HasKey(d, h)
    THEN [i \in 1..Len(d) |->
            IF d[i].hash = h THEN [d[i] EXCEPT !.paths = <<p>> \o @] ELSE d[i]]
    ELSE Append(d, [hash |-> h, paths |-> <<p>>])

\* mutant: the key a path is appended to becomes the newest key
Append_to_moves_key(d, h, p) ==
    IF HasKey(d, h)
    THEN SelectSeq(d, LAMBDA g : g.hash # h)
         \o <<[hash |-> h,
               paths |-> Append((CHOOSE g \in {d[i] : i \in 1..Len(d)} : g.hash = h).paths, p)]>>
    ELSE Append(d, [hash |-> h, paths |-> <<p>>])

\* duplicates[file_hash].append(filepath) on a defaultdict(list)
Append_to(d, h, p) ==
    IF HasKey(d, h)
    THEN [i \in 1..Len(d) |->
            IF d[i].hash = h THEN [d[i] EXCEPT !.paths = Append(@, p)] ELSE d[i]]
    ELSE Append(d, [hash |-> h, paths |-> <<p>>])

\* mutant: a file of exactly min_size bytes is skipped too
Visit_skip_equal(d, f, p, min_size) ==
    IF ~f[p].stat THEN d
    ELSE IF Size(f[p].content) <= min_size THEN d
    ELSE LET file_hash == calculate_file_hash(f, p)
         IN IF file_hash # None /\ file_hash # "" THEN Append_to(d, file_hash, p) ELSE d

\* the body of the loop over files, for one file
Visit(d, f, p, min_size) ==
    IF ~f[p].stat THEN d
    ELSE IF Size(f[p].content) < min_size THEN d
    ELSE LET file_hash == calculate_file_hash(f, p)
         IN IF file_hash # None /\ file_hash # "" THEN Append_to(d, file_hash, p) ELSE d

RECURSIVE Group(_, _, _, _)
Group(d, f, w, min_size) ==
    IF w = <<>> THEN d
    ELSE Group(Visit(d, f, Head(w), min_size), f, Tail(w), min_size)

\* mutant: the final filter keeps groups of one path
find_duplicates_keep_singletons(f, recursive, min_size) ==
    SelectSeq(Group(<<>>, f, Walk(f, recursive), min_size),
              LAMBDA g : Len(g.paths) > 0)

find_duplicates(f, recursive, min_size) ==
    SelectSeq(Group(<<>>, f, Walk(f, recursive), min_size),
              LAMBDA g : Len(g.paths) > 1)

\* ------------------------------------------------ the loop of find_duplicates
\* progress_callback is called when processed_files % 100 == 0
ProgressEvery == 100

\* the locals before the loop; todo is what os.walk has still to yield,
\* hashed the paths calculate_file_hash was called on, calls the arguments
\* of the progress_callback invocations
StartScan(w) ==
    [duplicates |-> <<>>, total_files |-> 0, processed_files |-> 0,
     hashed |-> <<>>, calls |-> <<>>, todo |-> w]

NoScan == StartScan(<<>>)

\* mutant: the callback is tested before the file is counted as processed
LoopBody_stale_count(sc, f, min_size, progress_callback) ==
    LET p == Head(sc.todo)
        total == sc.total_files + 1
        file_hash == calculate_file_hash(f, p)
        processed == IF file_hash # None /\ file_hash # ""
                     THEN sc.processed_files + 1 ELSE sc.processed_files
    IN IF ~f[p].stat \/ Size(f[p].content) < min_size
       THEN [sc EXCEPT !.total_files = total, !.todo = Tail(@)]
       ELSE [duplicates |-> Visit(sc.duplicates, f, p, min_size), total_files |-> total,
             processed_files |-> processed, hashed |-> Append(sc.hashed, p),
             calls |-> IF progress_callback /\ sc.processed_files % ProgressEvery = 0
                       THEN Append(sc.calls, <<sc.processed_files, total>>) ELSE sc.calls,
             todo |-> Tail(sc.todo)]

\* one pass of the loop over files, for path p = Head(sc.todo)
LoopBody(sc, f, min_size, progress_callback) ==
    LET p == Head(sc.todo)
        total == sc.total_files + 1
        file_hash == calculate_file_hash(f, p)
        processed == IF file_hash # None /\ file_hash # ""
                     THEN sc.processed_files + 1 ELSE sc.processed_files
    IN IF ~f[p].stat \/ Size(f[p].content) < min_size
       THEN [sc EXCEPT !.total_files = total, !.todo = Tail(@)]
       ELSE [duplicates |-> Visit(sc.duplicates, f, p, min_size),
             total_files |-> total,
             processed_files |-> processed,
             hashed |-> Append(sc.hashed, p),
             calls |-> IF progress_callback /\ processed % ProgressEvery = 0
                       THEN Append(sc.calls, <<processed, total>>) ELSE sc.calls,
             todo |-> Tail(sc.todo)]

\* the whole loop
RECURSIVE Loop(_, _, _, _)
Loop(sc, f, min_size, progress_callback) ==
    IF sc.todo = <<>> THEN sc
    ELSE Loop(LoopBody(sc, f, min_size, progress_callback), f, min_size, progress_callback)

\* ----------------------------------------------------- delete_duplicates
\* mutant: unlink(missing_ok=True)
UnlinkOk_missing_ok(f, p) == ~f[p].listed \/ f[p].unlink

\* Path.unlink() succeeds
UnlinkOk(f, p) == f[p].listed /\ f[p].unlink

\* the filesystem calls delete_duplicates makes, as the log records them
StatCall(gi, p, ok) == [call |-> "stat", group |-> gi, path |-> p, ok |-> ok]
UnlinkCall(gi, p, ok) == [call |-> "unlink", group |-> gi, path |-> p, ok |-> ok]

\* mutant: the first failed unlink ends the loop over the group
RECURSIVE UnlinkRest_abort(_, _, _, _)
UnlinkRest_abort(st, gi, file_size, rest) ==
    IF rest = <<>> THEN st
    ELSE LET filepath == Head(rest)
         IN IF UnlinkOk(st.fs, filepath)
            THEN UnlinkRest_abort(
                     [fs |-> [st.fs EXCEPT ![filepath] = Absent],
                      count |-> st.count + 1,
                      space |-> st.space + file_size,
                      log |-> Append(st.log, UnlinkCall(gi, filepath, TRUE))],
                     gi, file_size, Tail(rest))
            ELSE [st EXCEPT !.log = Append(@, UnlinkCall(gi, filepath, FALSE))]

\* mutant: freed_space grows by the size of the file that was removed
RECURSIVE UnlinkRest_own_size(_, _, _, _)
UnlinkRest_own_size(st, gi, file_size, rest) ==
    IF rest = <<>> THEN st
    ELSE LET filepath == Head(rest)
             next == IF UnlinkOk(st.fs, filepath)
                     THEN [fs |-> [st.fs EXCEPT ![filepath] = Absent],
                           count |-> st.count + 1,
                           space |-> st.space + Size(st.fs[filepath].content),
                           log |-> Append(st.log, UnlinkCall(gi, filepath, TRUE))]
                     ELSE [st EXCEPT !.log = Append(@, UnlinkCall(gi, filepath, FALSE))]
         IN UnlinkRest_own_size(next, gi, file_size, Tail(rest))

\* the loop over filepaths[1:] of one group; st = [fs, count, space, log]
RECURSIVE UnlinkRest(_, _, _, _)
UnlinkRest(st, gi, file_size, rest) ==
    IF rest = <<>> THEN st
    ELSE LET filepath == Head(rest)
             next == IF UnlinkOk(st.fs, filepath)
                     THEN [fs |-> [st.fs EXCEPT ![filepath] = Absent],
                           count |-> st.count + 1,
                           space |-> st.space + file_size,
                           log |-> Append(st.log, UnlinkCall(gi, filepath, TRUE))]
                     ELSE [st EXCEPT !.log = Append(@, UnlinkCall(gi, filepath, FALSE))]
         IN UnlinkRest(next, gi, file_size, Tail(rest))

\* mutant: the loop runs over filepaths, not filepaths[1:]
DeleteGroup_all_paths(st, gi, filepaths) ==
    IF filepaths = <<>> THEN st
    ELSE IF ~st.fs[filepaths[1]].stat
         THEN [st EXCEPT !.log = Append(@, StatCall(gi, filepaths[1], FALSE))]
    ELSE UnlinkRest([st EXCEPT !.log = Append(@, StatCall(gi, filepaths[1], TRUE))],
                    gi, Size(st.fs[filepaths[1]].content), filepaths)

\* mutant: the loop runs over filepaths[1:2]
DeleteGroup_first_only(st, gi, filepaths) ==
    IF filepaths = <<>> THEN st
    ELSE IF ~st.fs[filepaths[1]].stat
         THEN [st EXCEPT !.log = Append(@, StatCall(gi, filepaths[1], FALSE))]
    ELSE UnlinkRest([st EXCEPT !.log = Append(@, StatCall(gi, filepaths[1], TRUE))],
                    gi, Size(st.fs[filepaths[1]].content),
                    SubSeq(filepaths, 2, IF Len(filepaths) > 2 THEN 2 ELSE Len(filepaths)))

\* mutant: the loop runs over filepaths[1:-1]
DeleteGroup_drop_last(st, gi, filepaths) ==
    IF filepaths = <<>> THEN st
    ELSE IF ~st.fs[filepaths[1]].stat
         THEN [st EXCEPT !.log = Append(@, StatCall(gi, filepaths[1], FALSE))]
    ELSE UnlinkRest([st EXCEPT !.log = Append(@, StatCall(gi, filepaths[1], TRUE))],
                    gi, Size(st.fs[filepaths[1]].content),
                    SubSeq(filepaths, 2, Len(filepaths) - 1))

\* mutant: file_size is the size of the group's last path
DeleteGroup_size_of_last(st, gi, filepaths) ==
    IF filepaths = <<>> THEN st
    ELSE IF ~st.fs[filepaths[1]].stat
         THEN [st EXCEPT !.log = Append(@, StatCall(gi, filepaths[1], FALSE))]
    ELSE UnlinkRest([st EXCEPT !.log = Append(@, StatCall(gi, filepaths[1], TRUE))],
                    gi, Size(st.fs[filepaths[Len(filepaths)]].content), Tail(filepaths))

\* mutant: a failed stat of the first path does not skip the group
DeleteGroup_stat_failure_ignored(st, gi, filepaths) ==
    IF filepaths = <<>> THEN st
    ELSE IF ~st.fs[filepaths[1]].stat
         THEN UnlinkRest([st EXCEPT !.log = Append(@, StatCall(gi, filepaths[1], FALSE))],
                         gi, 0, Tail(filepaths))
    ELSE UnlinkRest([st EXCEPT !.log = Append(@, StatCall(gi, filepaths[1], TRUE))],
                    gi, Size(st.fs[filepaths[1]].content), Tail(filepaths))

\* the body of the loop over groups: IndexError and OSError on the first
\* path skip the group
DeleteGroup(st, gi, filepaths) ==
    IF filepaths = <<>> THEN st
    ELSE IF ~st.fs[filepaths[1]].stat
         THEN [st EXCEPT !.log = Append(@, StatCall(gi, filepaths[1], FALSE))]
    ELSE UnlinkRest([st EXCEPT !.log = Append(@, StatCall(gi, filepaths[1], TRUE))],
                    gi, Size(st.fs[filepaths[1]].content), Tail(filepaths))

RECURSIVE DeleteFrom(_, _, _)
DeleteFrom(st, d, gi) ==
    IF gi > Len(d) THEN st
    ELSE DeleteFrom(DeleteGroup(st, gi, d[gi].paths), d, gi + 1)

delete_duplicates(f, d) ==
    DeleteFrom([fs |-> f, count |-> 0, space |-> 0, log |-> <<>>], d, 1)

\* mutant: the paths that were unlinked are taken out of the mapping
duplicates_after_delete_pruned(f, d) ==
    [gi \in 1..Len(d) |->
        [d[gi] EXCEPT !.paths = SelectSeq(@, LAMBDA p : delete_duplicates(f, d).fs[p].listed)]]

\* the caller's mapping after delete_duplicates(duplicates) on the tree f:
\* the function reads items(), filepaths[0] and the copy filepaths[1:], and
\* assigns to no key and no list
duplicates_after_delete(f, d) == d

\* ---------------------------------------------------- analyze_duplicates
\* mutant: the OSError of filepaths[0].stat() is not caught
RECURSIVE AnalyzeFrom_no_except(_, _, _, _)
AnalyzeFrom_no_except(f, d, gi, total_space) ==
    IF gi > Len(d) THEN [exc |-> "none", n |-> Len(d), bytes |-> total_space]
    ELSE LET filepaths == d[gi].paths
         IN IF filepaths = <<>> THEN [exc |-> "IndexError", n |-> 0, bytes |-> 0]
            ELSE IF ~f[filepaths[1]].stat THEN [exc |-> "OSError", n |-> 0, bytes |-> 0]
            ELSE AnalyzeFrom_no_except(f, d, gi + 1,
                     total_space + Size(f[filepaths[1]].content) * (Len(filepaths) - 1))

\* mutant: every path of a group counts as reclaimable
RECURSIVE AnalyzeFrom_all(_, _, _, _)
AnalyzeFrom_all(f, d, gi, total_space) ==
    IF gi > Len(d) THEN [exc |-> "none", n |-> Len(d), bytes |-> total_space]
    ELSE LET filepaths == d[gi].paths
         IN IF filepaths = <<>> THEN [exc |-> "IndexError", n |-> 0, bytes |-> 0]
            ELSE IF ~f[filepaths[1]].stat THEN AnalyzeFrom_all(f, d, gi + 1, total_space)
            ELSE AnalyzeFrom_all(f, d, gi + 1,
                     total_space + Size(f[filepaths[1]].content) * Len(filepaths))

\* total_space after the groups gi..Len(d); "IndexError" when filepaths[0]
\* of an empty group is evaluated (only OSError is caught)
RECURSIVE AnalyzeFrom(_, _, _, _)
AnalyzeFrom(f, d, gi, total_space) ==
    IF gi > Len(d) THEN [exc |-> "none", n |-> Len(d), bytes |-> total_space]
    ELSE LET filepaths == d[gi].paths
         IN IF filepaths = <<>> THEN [exc |-> "IndexError", n |-> 0, bytes |-> 0]
            ELSE IF ~f[filepaths[1]].stat THEN AnalyzeFrom(f, d, gi + 1, total_space)
            ELSE AnalyzeFrom(f, d, gi + 1,
                     total_space + Size(f[filepaths[1]].content) * (Len(filepaths) - 1))

analyze_duplicates(f, d) == AnalyzeFrom(f, d, 1, 0)

\* ------------------------------------------------- get_duplicates_report
\* format_size(size_bytes): the number printed with one decimal, in tenths,
\* and its unit; a tie of the rounding goes to the even digit as "%.1f" does
\* on a value that is exact in binary
Units == <<"B", "KB", "MB", "GB", "TB">>

Kilo == 1024

RECURSIVE Power(_, _)
Power(b, e) == IF e = 0 THEN 1 ELSE b * Power(b, e - 1)

Tenths(n, d) ==
    LET q == (n * 10) \div d
        r == (n * 10) % d
    IN IF 2 * r > d THEN q + 1
       ELSE IF 2 * r = d THEN q + (q % 2)
       ELSE q

RECURSIVE FormatFrom(_, _)
FormatFrom(size_bytes, k) ==
    IF k = Len(Units) \/ size_bytes < Power(Kilo, k)
    THEN [tenths |-> Tenths(size_bytes, Power(Kilo, k - 1)), unit |-> Units[k]]
    ELSE FormatFrom(size_bytes, k + 1)

format_size(size_bytes) == FormatFrom(size_bytes, 1)

NoSize == [tenths |-> 0, unit |-> ""]

\* file_hash[:8]
Prefix8(file_hash) ==
    CASE file_hash = MD5("") -> "d41d8cd9"
      [] file_hash = MD5("X") -> "02129bb8"
      [] file_hash = MD5("Y") -> "57cec413"
      [] file_hash = MD5("WangA") -> "79054025"
      [] OTHER -> file_hash

\* one line of the report: its kind, the number it prints (set number, count
\* of sets, or the path), the digest prefix and the formatted size, if any
Line(kind, i, text, size) == [kind |-> kind, i |-> i, text |-> text, size |-> size]

PathLines(filepaths) ==
    [j \in 1..Len(filepaths) |->
        Line(IF j = 1 THEN "[KEEP]" ELSE "[DUPLICATE]", filepaths[j], "", NoSize)]

\* mutant: a set whose first path cannot be stat'ed is listed all the same
RECURSIVE BlocksFrom_lists_all(_, _, _, _)
BlocksFrom_lists_all(f, d, i, show_size) ==
    IF i > Len(d) THEN <<>>
    ELSE LET filepaths == d[i].paths
         IN (<<Line("Set", i, Prefix8(d[i].hash),
                     IF show_size /\ f[filepaths[1]].stat
                     THEN format_size(Size(f[filepaths[1]].content)) ELSE NoSize),
                Line("Files:", 0, "", NoSize)>> \o PathLines(filepaths))
            \o BlocksFrom_lists_all(f, d, i + 1, show_size)

\* the loop over enumerate(duplicates.items(), 1): a set whose first path
\* cannot be stat'ed is passed over (except OSError: continue)
RECURSIVE BlocksFrom(_, _, _, _)
BlocksFrom(f, d, i, show_size) ==
    IF i > Len(d) THEN <<>>
    ELSE LET filepaths == d[i].paths
         IN (IF ~f[filepaths[1]].stat THEN <<>>
             ELSE <<Line("Set", i, Prefix8(d[i].hash),
                         IF show_size THEN format_size(Size(f[filepaths[1]].content))
                         ELSE NoSize),
                    Line("Files:", 0, "", NoSize)>> \o PathLines(filepaths))
            \o BlocksFrom(f, d, i + 1, show_size)

\* the report, or the exception analyze_duplicates lets through
get_duplicates_report(f, d, show_size) ==
    IF d = <<>>
    THEN [exc |-> "none", lines |-> <<Line("No duplicate files found!", 0, "", NoSize)>>]
    ELSE LET a == analyze_duplicates(f, d)
         IN IF a.exc # "none" THEN [exc |-> a.exc, lines |-> <<>>]
            ELSE [exc |-> "none",
                  lines |-> <<Line("Found", a.n, "", NoSize), Line("rule", 0, "", NoSize)>>
                            \o BlocksFrom(f, d, 1, show_size)
                            \o IF a.bytes > 0
                               THEN <<Line("Total reclaimable space", 0, "", format_size(a.bytes))>>
                               ELSE <<>>]

\* ---------------------------------------------------------------- actions
\* trail.stage: "scanned" after find_duplicates; "cleaned" after
\* delete_duplicates on that scan's result with the tree untouched in
\* between; "rescanned" after find_duplicates with the same parameters on
\* the cleaned tree.  trail.deletes: the delete_duplicates calls made in a
\* row on the present mapping (from 2 on: 2).
NoTrail == [stage |-> "none", recursive |-> FALSE, min_size |-> 0, deletes |-> 0]

AfterFind(t, recursive, min_size) ==
    [stage |-> IF t.stage = "cleaned" /\ t.recursive = recursive /\ t.min_size = min_size
               THEN "rescanned" ELSE "scanned",
     recursive |-> recursive, min_size |-> min_size, deletes |-> 0]

AfterDelete(t) ==
    IF t.stage = "scanned"
    THEN [t EXCEPT !.stage = "cleaned", !.deletes = 1]
    ELSE [NoTrail EXCEPT !.deletes = IF t.deletes = 0 THEN 1 ELSE 2]

Init ==
    /\ fs \in [Paths -> FileStates]
    /\ dups = <<>>
    /\ op = "init"
    /\ pre = fs
    /\ ret = NoRet
    /\ log = <<>>
    /\ trail = NoTrail
    /\ scan = NoScan
    /\ cli = NoCli
    /\ report = NoReport

\* duplicates = find_duplicates(directory, recursive, min_size)
Find(directory, recursive, min_size) ==
    /\ dups' = find_duplicates(TreeAt(directory, fs), recursive, min_size)
    /\ op' = IF isdir(directory) THEN "find" ELSE "find_invalid"
    /\ pre' = fs
    /\ ret' = NoRet
    /\ trail' = IF isdir(directory) THEN AfterFind(trail, recursive, min_size) ELSE NoTrail
    /\ scan' = Loop(StartScan(Walk(TreeAt(directory, fs), recursive)),
                    TreeAt(directory, fs), min_size, FALSE)
    /\ report' = NoReport
    /\ UNCHANGED <<fs, log, cli>>

\* deleted_count, freed_space = delete_duplicates(duplicates)
Delete ==
    LET r == delete_duplicates(fs, dups)
    IN /\ fs' = r.fs
       /\ op' = "delete"
       /\ pre' = fs
       /\ ret' = [exc |-> "none", n |-> r.count, bytes |-> r.space]
       /\ log' = r.log
       /\ trail' = AfterDelete(trail)
       /\ scan' = NoScan
       /\ report' = NoReport
       /\ dups' = duplicates_after_delete(fs, dups)
       /\ UNCHANGED cli

\* total_sets, total_space = analyze_duplicates(duplicates)
Analyze ==
    /\ op' = "analyze"
    /\ pre' = fs
    /\ ret' = analyze_duplicates(fs, dups)
    /\ report' = NoReport
    /\ UNCHANGED <<fs, dups, log, trail, scan, cli>>

\* print(get_duplicates_report(duplicates, show_size))
Report(show_size) ==
    /\ report' = get_duplicates_report(fs, dups, show_size)
    /\ op' = "report"
    /\ pre' = fs
    /\ ret' = NoRet
    /\ log' = <<>>
    /\ trail' = NoTrail
    /\ scan' = NoScan
    /\ UNCHANGED <<fs, dups, cli>>

\* another process removes a file after the scan, before the mapping is used
ExternalRemove(p) ==
    /\ op = "find"
    /\ fs[p].listed
    /\ fs' = [fs EXCEPT ![p] = Absent]
    /\ op' = "external"
    /\ pre' = fs'
    /\ ret' = NoRet
    /\ log' = <<>>
    /\ trail' = NoTrail
    /\ scan' = NoScan
    /\ report' = NoReport
    /\ UNCHANGED <<dups, cli>>

Next ==
    \/ \E recursive \in BOOLEAN, min_size \in 0..MaxMinSize : Find("root", recursive, min_size)
    \/ \E directory \in Directories \ {"root"} :
           Find(directory, NoArgs.recursive, NoArgs.min_size)
    \/ Delete
    \/ Analyze
    \/ \E p \in Paths : ExternalRemove(p)

Spec == Init /\ [][Next]_vars

\* ------------------------------------------------- hand-built mappings
\* A caller may pass delete_duplicates and analyze_duplicates any mapping,
\* as the tests do.  HandMappings(w) is every mapping whose groups hold at
\* most w paths in total, an empty group counting as one.
HandKeys == <<"hash1", "hash2", "hash3", "hash4", "hash5", "hash6", "hash7", "hash8">>

PathLists(n) == UNION {[1..k -> Paths] : k \in 0..n}

Weight(g) == IF Len(g) = 0 THEN 1 ELSE Len(g)

RECURSIVE GroupLists(_)
GroupLists(w) ==
    {<<>>} \cup
    IF w = 0 THEN {}
    ELSE UNION {{<<g>> \o m : m \in GroupLists(w - Weight(g))} : g \in PathLists(w)}

HandMappings(w) ==
    {[i \in 1..Len(gl) |-> [hash |-> HandKeys[i], paths |-> gl[i]]] : gl \in GroupLists(w)}

\* The trees the hand-built mappings are applied to: the files are of
\* pairwise different kinds, among a small file, a large file, a missing
\* path, a file that cannot be removed and a dangling link.
HandKinds == <<Regular("X"), Regular("WangA"), Absent, Undeletable("X"), Dangling>>

HandTrees ==
    {[p \in Paths |-> HandKinds[k[p]]] :
        k \in {k \in [Paths -> 1..Len(HandKinds)] :
                  \A p, q \in Paths : p < q => k[p] < k[q]}}

InitHand ==
    /\ fs \in HandTrees
    /\ dups \in HandMappings(MaxEntries)
    /\ op = "init"
    /\ pre = fs
    /\ ret = NoRet
    /\ log = <<>>
    /\ trail = NoTrail
    /\ scan = NoScan
    /\ cli = NoCli
    /\ report = NoReport

NextHand ==
    \/ Delete
    \/ Analyze
    \/ \E show_size \in BOOLEAN : Report(show_size)

SpecHand == InitHand /\ [][NextHand]_vars

RECURSIVE SumSeq(_)
SumSeq(q) == IF q = <<>> THEN 0 ELSE Head(q) + SumSeq(Tail(q))

\* ------------------------------------------------------- the command line
\* One run of main().  cli.pc is the place the run has reached, cli.out the
\* messages printed so far (standard output and standard error together),
\* cli.exit the exit status once cli.pc = "done"; pre is the tree the run
\* started on.
ArgSets ==
    [directory : Directories, recursive : BOOLEAN, min_size : -1..MaxMinSize,
     show_size : BOOLEAN, dry_run : BOOLEAN, delete : BOOLEAN, quiet : BOOLEAN]

CliStates == {Absent, Regular("X"), Unreadable("X"), Undeletable("X")}

Passed == [exc |-> "none", msg |-> ""]

\* mutant: a negative --min-size is let through
validate_args_any_size(args) ==
    IF ~isdir(args.directory)
    THEN [exc |-> "ValueError", msg |-> "is not a valid directory"]
    ELSE IF args.delete /\ args.dry_run
    THEN [exc |-> "ValueError", msg |-> "Cannot use both --delete and --dry-run"]
    ELSE Passed

validate_args(args) ==
    IF ~isdir(args.directory)
    THEN [exc |-> "ValueError", msg |-> "is not a valid directory"]
    ELSE IF args.delete /\ args.dry_run
    THEN [exc |-> "ValueError", msg |-> "Cannot use both --delete and --dry-run"]
    ELSE IF args.min_size < 0
    THEN [exc |-> "ValueError", msg |-> "Minimum size must be non-negative"]
    ELSE Passed

\* main's handler of what validate_args raises: print the error, exit(1)
ExitOnError(c, v) ==
    [c EXCEPT !.pc = "done", !.exit = 1, !.exc = v.exc, !.err = v.msg,
              !.out = Append(@, "Error")]

\* the groups find_duplicates returns from what its loop accumulated
Returned(d) == SelectSeq(d, LAMBDA g : Len(g.paths) > 1)

\* mutant: a dry run goes on to delete
Branch_dry_run_deletes(args, duplicates) ==
    IF args.dry_run /\ duplicates # <<>> THEN "delete"
    ELSE IF args.delete /\ duplicates # <<>> THEN "delete"
    ELSE "done"

\* what main does after printing the report
Branch(args, duplicates) ==
    IF args.dry_run THEN "dry_run"
    ELSE IF args.delete /\ duplicates # <<>> THEN "delete"
    ELSE "done"

InitCli ==
    /\ fs \in [Paths -> CliStates]
    /\ dups = <<>>
    /\ op = "init"
    /\ pre = fs
    /\ ret = NoRet
    /\ log = <<>>
    /\ trail = NoTrail
    /\ scan = NoScan
    /\ \E args \in ArgSets : cli = [NoCli EXCEPT !.args = args, !.pc = "validate"]
    /\ report = NoReport

\* validate_args(args), then the scan banner and the call of find_duplicates
CliValidate ==
    /\ cli.pc = "validate"
    /\ LET v == validate_args(cli.args)
       IN IF v.exc # "none"
          THEN /\ cli' = ExitOnError(cli, v)
               /\ scan' = scan
          ELSE /\ cli' = [cli EXCEPT !.pc = "scan",
                                     !.out = IF cli.args.quiet THEN @
                                             ELSE Append(@, "Scanning directory")]
               /\ scan' = StartScan(Walk(TreeAt(cli.args.directory, fs), cli.args.recursive))
    /\ op' = "validate"
    /\ UNCHANGED <<fs, dups, pre, ret, log, trail, report>>

\* one pass of find_duplicates' loop over the files
CliScanStep ==
    /\ cli.pc = "scan"
    /\ scan.todo # <<>>
    /\ scan' = LoopBody(scan, TreeAt(cli.args.directory, fs), cli.args.min_size, ~cli.args.quiet)
    /\ op' = "scan"
    /\ UNCHANGED <<fs, dups, pre, ret, log, trail, cli, report>>

\* find_duplicates returns and main binds duplicates
CliScanReturn ==
    /\ cli.pc = "scan"
    /\ scan.todo = <<>>
    /\ dups' = Returned(scan.duplicates)
    /\ cli' = [cli EXCEPT !.pc = "report"]
    /\ op' = "return"
    /\ UNCHANGED <<fs, pre, ret, log, trail, scan, report>>

\* print(get_duplicates_report(duplicates)), then the choice of the branch
CliReport ==
    /\ cli.pc = "report"
    /\ ret' = IF dups = <<>> THEN NoRet ELSE analyze_duplicates(fs, dups)
    /\ report' = get_duplicates_report(fs, dups, cli.args.show_size)
    /\ cli' = [cli EXCEPT !.pc = Branch(cli.args, dups), !.out = Append(@, "report")]
    /\ op' = "report"
    /\ UNCHANGED <<fs, dups, pre, log, trail, scan>>

\* the --dry-run branch: sizes are read, nothing is removed
CliDryRun ==
    /\ cli.pc = "dry_run"
    /\ IF \E gi \in 1..Len(dups) : ~fs[dups[gi].paths[1]].stat
       THEN /\ cli' = [cli EXCEPT !.pc = "done", !.exit = 1, !.exc = "OSError",
                                  !.out = Append(@, "Error")]
            /\ ret' = ret
       ELSE /\ cli' = [cli EXCEPT !.pc = "done", !.out = Append(@, "Dry run")]
            /\ ret' = [exc |-> "none", n |-> Len(dups),
                       bytes |-> SumSeq([gi \in 1..Len(dups) |->
                                    Size(fs[dups[gi].paths[1]].content)
                                        * (Len(dups[gi].paths) - 1)])]
    /\ op' = "dry_run"
    /\ UNCHANGED <<fs, dups, pre, log, trail, scan, report>>

\* the --delete branch
CliDelete ==
    /\ cli.pc = "delete"
    /\ LET r == delete_duplicates(fs, dups)
       IN /\ fs' = r.fs
          /\ log' = r.log
          /\ ret' = [exc |-> "none", n |-> r.count, bytes |-> r.space]
    /\ dups' = duplicates_after_delete(fs, dups)
    /\ cli' = [cli EXCEPT !.pc = "done",
                          !.out = IF cli.args.quiet THEN @ ELSE @ \o <<"Deleting", "Deleted">>]
    /\ op' = "delete"
    /\ UNCHANGED <<pre, trail, scan, report>>

\* KeyboardInterrupt raised inside main's second try block: whatever
\* find_duplicates held is gone with its frame, main prints and exits 130
CliInterrupt ==
    /\ cli.pc \in {"scan", "report", "dry_run", "delete"}
    /\ cli' = [cli EXCEPT !.pc = "done", !.exit = 130, !.exc = "KeyboardInterrupt",
                          !.out = IF cli.args.quiet THEN @
                                  ELSE Append(@, "Operation cancelled by user")]
    /\ op' = IF cli.pc = "scan" THEN "interrupted_scan" ELSE "interrupted"
    /\ UNCHANGED <<fs, dups, pre, ret, log, trail, scan, report>>

NextCli ==
    \/ CliValidate
    \/ CliScanStep
    \/ CliScanReturn
    \/ CliReport
    \/ CliDryRun
    \/ CliDelete
    \/ CliInterrupt

SpecCli == InitCli /\ [][NextCli]_vars

\* ------------------------------------------------- scans of many files
\* The counters of find_duplicates' loop over a long run of files, one file
\* a step: at most MaxMet files, of which at most MaxFailed are not hashed
\* with success (under-size, stat failing or read failing).  The mapping
\* and the list of hashed paths are not followed here.
StreamKinds == {Regular("X"), Regular(""), Unreadable("X"), Dangling}

Counters(sc) == [sc EXCEPT !.duplicates = <<>>, !.hashed = <<>>]

\* the state of the loop after it has met one more file, of the given kind
Met(sc, kind, min_size) ==
    Counters(LoopBody([sc EXCEPT !.todo = <<1>>], [q \in Paths |-> kind], min_size, TRUE))

InitProgress ==
    /\ fs = [p \in Paths |-> Absent]
    /\ dups = <<>>
    /\ op = "init"
    /\ pre = fs
    /\ ret = NoRet
    /\ log = <<>>
    /\ \E min_size \in 0..MaxMinSize : trail = [NoTrail EXCEPT !.min_size = min_size]
    /\ scan = NoScan
    /\ cli = NoCli
    /\ report = NoReport

Meet(kind) ==
    /\ scan.total_files < MaxMet
    /\ Met(scan, kind, trail.min_size).processed_files = scan.processed_files
           => scan.total_files - scan.processed_files < MaxFailed
    /\ scan' = Met(scan, kind, trail.min_size)
    /\ op' = "progress"
    /\ UNCHANGED <<fs, dups, pre, ret, log, trail, cli, report>>

NextProgress == \E kind \in StreamKinds : Meet(kind)

SpecProgress == InitProgress /\ [][NextProgress]_vars

\* ------------------------------------------------ scans of a flat directory
\* A scan of one directory of MaxFlat files and no subdirectory, pass by
\* pass, then the report of its result: enough files for two digests to
\* have two files each.  Path p is the p-th file the traversal enumerates.
FlatPaths == 1..MaxFlat

FlatKinds == {Regular("X"), Regular("Y"), Regular("WangA"), Regular("WangB"), Unreadable("X")}

InitFlat ==
    /\ fs \in [FlatPaths -> FlatKinds]
    /\ dups = <<>>
    /\ op = "init"
    /\ pre = fs
    /\ ret = NoRet
    /\ log = <<>>
    /\ \E min_size \in 0..MaxMinSize :
           trail = [NoTrail EXCEPT !.recursive = TRUE, !.min_size = min_size]
    /\ scan = StartScan([p \in FlatPaths |-> p])
    /\ cli = NoCli
    /\ report = NoReport

\* one pass of find_duplicates' loop over the files
FlatStep ==
    /\ op \in {"init", "scan"}
    /\ scan.todo # <<>>
    /\ scan' = LoopBody(scan, fs, trail.min_size, FALSE)
    /\ op' = "scan"
    /\ UNCHANGED <<fs, dups, pre, ret, log, trail, cli, report>>

\* find_duplicates returns
FlatReturn ==
    /\ op \in {"init", "scan"}
    /\ scan.todo = <<>>
    /\ dups' = Returned(scan.duplicates)
    /\ op' = "find"
    /\ UNCHANGED <<fs, pre, ret, log, trail, scan, cli, report>>

\* the report of the scan's result
FlatReport ==
    /\ op = "find"
    /\ \E show_size \in BOOLEAN : report' = get_duplicates_report(fs, dups, show_size)
    /\ op' = "report"
    /\ UNCHANGED <<fs, dups, pre, ret, log, trail, scan, cli>>

NextFlat ==
    \/ FlatStep
    \/ FlatReturn
    \/ FlatReport

SpecFlat == InitFlat /\ [][NextFlat]_vars

\* ----------------------------------------------------------------- claims
Range(q) == {q[i] : i \in 1..Len(q)}

SameGroup(d, a, b) == \E i \in 1..Len(d) : a \in Range(d[i].paths) /\ b \in Range(d[i].paths)

\* after a scan: the paths the traversal enumerated, and those among them
\* that could be stat'ed and read and have size >= min_size
Scanned(p) == fs[p].listed /\ (trail.recursive \/ Depth(p) = 0)
Candidate(p) ==
    /\ Scanned(p)
    /\ fs[p].stat
    /\ fs[p].read
    /\ Size(fs[p].content) >= trail.min_size

\* position of path p in the traversal of the last scan
WalkPos(p) == CHOOSE k \in 1..Len(Walk(fs, trail.recursive)) : Walk(fs, trail.recursive)[k] = p

\* after a delete: the calls of the log that are unlinks of group gi, the
\* paths they were made on, and whether the stat of the group's first path
\* succeeded
UnlinksOf(gi) == SelectSeq(log, LAMBDA e : e.call = "unlink" /\ e.group = gi)
UnlinkedPaths(gi) == [k \in 1..Len(UnlinksOf(gi)) |-> UnlinksOf(gi)[k].path]
OkUnlinks(gi) == Len(SelectSeq(log, LAMBDA e : e.call = "unlink" /\ e.group = gi /\ e.ok))
AllOkUnlinks == Len(SelectSeq(log, LAMBDA e : e.call = "unlink" /\ e.ok))
KeeperStatOk(gi) ==
    /\ dups[gi].paths # <<>>
    /\ \E k \in 1..Len(log) : log[k] = StatCall(gi, dups[gi].paths[1], TRUE)
\* every path of group gi at index >= 1 was passed to unlink, in order
RestAttempted(gi) == dups[gi].paths = <<>> \/ UnlinkedPaths(gi) = Tail(dups[gi].paths)
\* st_size of the first path of group gi when the call started
KeeperSize(gi) ==
    IF dups[gi].paths = <<>> THEN 0 ELSE Size(pre[dups[gi].paths[1]].content)
\* deleted_count and freed_space as the log gives them
CountedByLog ==
    /\ ret.n = AllOkUnlinks
    /\ ret.bytes = SumSeq([gi \in 1..Len(dups) |-> KeeperSize(gi) * OkUnlinks(gi)])
\* path p occurs at an index >= 1 of some group
IsDuplicateEntry(p) ==
    \E gi \in 1..Len(dups) : \E j \in 2..Len(dups[gi].paths) : dups[gi].paths[j] = p

\* C1 (as stated): after a scan, two readable files of size >= min_size that
\* the scan visited are in the same group if and only if their contents are
\* identical.
C1_SameGroupIffSameContent ==
    op = "find" =>
        \A a, b \in Paths :
            (a # b /\ Candidate(a) /\ Candidate(b)) =>
                (SameGroup(dups, a, b) <=> fs[a].content = fs[b].content)

\* C3: in every group of a scan's result the paths stand in the order in which
\* the traversal enumerated them, so the path at index 0 is the member that was
\* enumerated first.
C3_GroupsInTraversalOrder ==
    op = "find" =>
        \A gi \in 1..Len(dups) :
            /\ \A i, j \in 1..Len(dups[gi].paths) :
                   i < j => WalkPos(dups[gi].paths[i]) < WalkPos(dups[gi].paths[j])
            /\ \A p \in Range(dups[gi].paths) :
                   WalkPos(dups[gi].paths[1]) <= WalkPos(p)

C3_Witness ==
    /\ op = "find"
    /\ \E gi \in 1..Len(dups) : Len(dups[gi].paths) = 3

\* C4: every group of a scan's result has at least 2 paths, and a digest that
\* only one file of the scan has is no key of the result; so a tree with no
\* two candidate files of one digest gives the empty mapping.
C4_GroupsHaveTwoPaths ==
    op = "find" =>
        /\ \A gi \in 1..Len(dups) : Len(dups[gi].paths) >= 2
        /\ \A p \in Paths :
               (Candidate(p) /\ \A q \in Paths \ {p} :
                                   Candidate(q) => MD5(fs[q].content) # MD5(fs[p].content))
                   => ~HasKey(dups, MD5(fs[p].content))
        /\ (\A p, q \in Paths :
               (p # q /\ Candidate(p) /\ Candidate(q))
                   => MD5(fs[p].content) # MD5(fs[q].content))
               => dups = <<>>

C4_Witness ==
    /\ op = "find"
    /\ dups = <<>>
    /\ \E p, q \in Paths : p # q /\ Candidate(p) /\ Candidate(q)

C6_SecondDeleteDoesNothing ==
    (op = "delete" /\ trail.deletes = 2) =>
        /\ ret.n = 0
        /\ ret.bytes = 0
        /\ fs = pre

C6_Witness ==
    /\ op = "delete"
    /\ trail.deletes = 2
    /\ \E k \in 1..Len(log) :
           log[k].call = "unlink" /\ ~log[k].ok /\ ~pre[log[k].path].listed

\* C7 (as stated): after a failed unlink every other path at index >= 1 of the
\* same group and of all later groups is still passed to unlink, the call
\* returns normally, and the failed path is counted neither in deleted_count
\* nor in freed_space.
C7_FailureNeverStopsLaterUnlinks ==
    op = "delete" =>
        /\ ret.exc = "none"
        /\ CountedByLog
        /\ \A k \in 1..Len(log) :
               (log[k].call = "unlink" /\ ~log[k].ok) =>
                   \A gi \in log[k].group..Len(dups) : RestAttempted(gi)

\* C7 (amended): ... of the same group and of all later groups whose first
\* path can be stat'ed when the group is reached ...
C7_FailureDoesNotAbort ==
    op = "delete" =>
        /\ ret.exc = "none"
        /\ CountedByLog
        /\ \A k \in 1..Len(log) :
               (log[k].call = "unlink" /\ ~log[k].ok) =>
                   \A gi \in log[k].group..Len(dups) :
                       KeeperStatOk(gi) => RestAttempted(gi)

C7_Witness ==
    /\ op = "delete"
    /\ \E k, n \in 1..Len(log) :
           /\ k < n
           /\ log[k].call = "unlink" /\ ~log[k].ok
           /\ log[n].call = "unlink" /\ log[n].ok /\ log[n].group > log[k].group

C9_CountsSuccessfulUnlinks == op = "delete" => CountedByLog

C9_Witness ==
    /\ op = "delete"
    /\ ret.n = 1
    /\ ret.bytes = Size("WangA")
    /\ \E k \in 1..Len(log) : log[k].call = "unlink" /\ ~log[k].ok
    /\ \E k \in 1..Len(log) :
           log[k].call = "unlink" /\ log[k].ok /\ Size(pre[log[k].path].content) = Size("X")

\* reclaimable space of the mapping, from the sizes of the first paths
Reclaimable ==
    SumSeq([gi \in 1..Len(dups) |->
               Size(fs[dups[gi].paths[1]].content) * (Len(dups[gi].paths) - 1)])

AllKeepersStatable ==
    \A gi \in 1..Len(dups) : dups[gi].paths # <<>> /\ fs[dups[gi].paths[1]].stat

\* C10: when the first path of every group can be stat'ed, analyze_duplicates
\* returns set_count = the number of groups and reclaimable space = the sum
\* over the groups of (size of the first path) x (group length - 1).
C10_AnalyzeSums ==
    (op = "analyze" /\ AllKeepersStatable) =>
        /\ ret.exc = "none"
        /\ ret.n = Len(dups)
        /\ ret.bytes = Reclaimable

C10_Witness ==
    /\ op = "analyze"
    /\ AllKeepersStatable
    /\ Len(dups) = 2
    /\ Len(dups[1].paths) = 2
    /\ Len(dups[2].paths) = 2
    /\ ret.bytes = Size("X") + Size("WangA")

\* C11: analyze_duplicates returns normally when first paths cannot be
\* stat'ed: a group whose first path cannot be stat'ed adds 0 to the
\* reclaimable space and every other group adds (size of its first path) x
\* (group length - 1).  (Every group has a first path.)
C11_UnstatableKeeperAddsNothing ==
    (op = "analyze" /\ \A gi \in 1..Len(dups) : dups[gi].paths # <<>>) =>
        /\ ret.exc = "none"
        /\ ret.n = Len(dups)
        /\ ret.bytes =
               SumSeq([gi \in 1..Len(dups) |->
                          IF fs[dups[gi].paths[1]].stat
                          THEN Size(fs[dups[gi].paths[1]].content) * (Len(dups[gi].paths) - 1)
                          ELSE 0])

C11_Witness ==
    /\ op = "analyze"
    /\ Len(dups) = 2
    /\ Len(dups[1].paths) = 2
    /\ Len(dups[2].paths) = 2
    /\ ~fs[dups[1].paths[1]].stat
    /\ fs[dups[1].paths[2]].stat
    /\ fs[dups[2].paths[1]].stat
    /\ ret.exc = "none"
    /\ ret.bytes = Size("WangA")

InSomeGroup(p) == \E gi \in 1..Len(dups) : p \in Range(dups[gi].paths)

\* C12: a file of size < min_size is never hashed and is in no group of the
\* scan's result; with min_size = 0 the zero-byte files the scan could read
\* are all in one group; with min_size = 1 no zero-byte file is in the result.
C12_MinSizeFilter ==
    op = "find" =>
        /\ \A p \in Paths :
               (fs[p].stat /\ Size(fs[p].content) < trail.min_size) =>
                   /\ p \notin Range(scan.hashed)
                   /\ ~InSomeGroup(p)
        /\ trail.min_size = 0 =>
               \A a, b \in Paths :
                   (a # b /\ Candidate(a) /\ Candidate(b)
                        /\ Size(fs[a].content) = 0 /\ Size(fs[b].content) = 0)
                       => SameGroup(dups, a, b)
        /\ trail.min_size = 1 =>
               \A p \in Paths : (fs[p].stat /\ Size(fs[p].content) = 0) => ~InSomeGroup(p)

C12_Witness ==
    /\ op = "find"
    /\ trail.min_size = 1
    /\ \E a, b, c \in Paths :
           /\ a # b
           /\ Scanned(a) /\ fs[a] = Regular("")
           /\ Scanned(b) /\ fs[b] = Regular("")
           /\ scan.hashed = <<c>>
    /\ scan.total_files = 3
    /\ dups = <<>>

\* the tree with the files of the subdirectories taken away
RootOnly(f) == [p \in Paths |-> IF Depth(p) = 0 THEN f[p] ELSE Absent]

\* C13: a non-recursive scan enumerates exactly the files directly in the
\* root, every path of its result is directly in the root, and its result is
\* that of scanning the tree without its subdirectories; a recursive scan
\* enumerates the files of every depth and groups the duplicates among them
\* whatever their depth.
C13_RecursiveFlag ==
    op = "find" =>
        /\ ~trail.recursive =>
               /\ \A p \in Paths : InSomeGroup(p) => Depth(p) = 0
               /\ scan.total_files = Cardinality({p \in Paths : fs[p].listed /\ Depth(p) = 0})
               /\ dups = find_duplicates(RootOnly(fs), TRUE, trail.min_size)
        /\ trail.recursive =>
               /\ scan.total_files = Cardinality({p \in Paths : fs[p].listed})
               /\ \A a, b \in Paths :
                      (a # b /\ Candidate(a) /\ Candidate(b)
                           /\ MD5(fs[a].content) = MD5(fs[b].content))
                          => SameGroup(dups, a, b)

C13_Witness ==
    /\ op = "find"
    /\ ~trail.recursive
    /\ \A p \in Paths : fs[p] = Regular("X")
    /\ \E p \in Paths : Depth(p) = 1
    /\ Len(dups) = 1
    /\ Len(dups[1].paths) = RootFiles
    /\ scan.total_files = RootFiles

\* a file the scan meets but cannot stat or cannot read
Unusable(f, p) == f[p].listed /\ (~f[p].stat \/ ~f[p].read)

WithoutUnusable(f) == [p \in Paths |-> IF Unusable(f, p) THEN Absent ELSE f[p]]

\* C14: a file whose stat or read fails during a scan is in no group, the
\* scan still returns a mapping (the failed read gives None, not an
\* exception), and that mapping is the one the scan gives for the same tree
\* with those files removed.
C14_UnreadableFilesDropped ==
    op = "find" =>
        /\ \A p \in Paths : Unusable(fs, p) =>
               /\ calculate_file_hash(fs, p) = None
               /\ ~InSomeGroup(p)
        /\ dups = find_duplicates(WithoutUnusable(fs), trail.recursive, trail.min_size)
        /\ scan.total_files = Len(Walk(fs, trail.recursive))

C14_Witness ==
    /\ op = "find"
    /\ trail.recursive
    /\ \E a, b, c \in Paths :
           /\ a < b /\ b < c
           /\ fs[a] = Regular("X")
           /\ fs[b] = Unreadable("X")
           /\ fs[c] = Regular("X")
           /\ dups = <<[hash |-> MD5("X"), paths |-> <<a, c>>]>>
           /\ scan.hashed = <<a, b, c>>

\* C17: find_duplicates on a path that does not exist or is not a directory
\* returns the empty mapping without an error, having met no file and
\* changed none.
C17_InvalidDirectoryGivesEmpty ==
    op = "find_invalid" =>
        /\ dups = <<>>
        /\ ret.exc = "none"
        /\ scan.total_files = 0
        /\ scan.hashed = <<>>
        /\ fs = pre

C17_Witness ==
    /\ op = "find_invalid"
    /\ \E a, b \in Paths : a # b /\ fs[a] = Regular("X") /\ fs[b] = Regular("X")
    /\ dups = <<>>

\* the arguments validate_args has to refuse
ArgsRefused(args) ==
    \/ ~isdir(args.directory)
    \/ args.delete /\ args.dry_run
    \/ args.min_size < 0

\* C15: at every moment of a run with --dry-run, finished or not, the tree
\* is the one the run started on: no file was removed or changed.
C15_DryRunTouchesNothing ==
    (cli.pc # "none" /\ cli.args.dry_run) => (fs = pre /\ log = <<>>)

C15_Witness ==
    /\ cli.pc = "done"
    /\ cli.args.dry_run
    /\ cli.exit = 0
    /\ cli.out[Len(cli.out)] = "Dry run"
    /\ Len(dups) = 1
    /\ \A p \in Range(dups[1].paths) : fs[p] = Regular("X")
    /\ Len(dups[1].paths) = NumFiles
    /\ ret.bytes = Size("X") * (NumFiles - 1)
    /\ fs = pre

\* C16: a run whose arguments fail validation ends with exit status 1 and
\* an error message, and at no moment of it has a file been enumerated,
\* hashed or removed.
C16_InvalidArgsStopBeforeScan ==
    (cli.pc # "none" /\ ArgsRefused(cli.args)) =>
        /\ scan = NoScan
        /\ log = <<>>
        /\ fs = pre
        /\ dups = <<>>
        /\ cli.pc \in {"validate", "done"}
        /\ cli.pc = "done" =>
               /\ cli.exit = 1
               /\ cli.err # ""
               /\ cli.out = <<"Error">>

C16_Witness ==
    /\ cli.pc = "done"
    /\ cli.exit = 1
    /\ isdir(cli.args.directory)
    /\ cli.args.delete /\ ~cli.args.dry_run
    /\ cli.args.min_size < 0
    /\ cli.err = "Minimum size must be non-negative"
    /\ \A p \in Paths : fs[p] = Regular("X")
    /\ scan = NoScan

\* how a run on the arguments args ends when validate_args refuses them
Refusal(args) ==
    LET c == ExitOnError([NoCli EXCEPT !.args = args], validate_args(args))
    IN [exc |-> c.exc, exit |-> c.exit]

\* C18: a run refused for its root alone ends with another error kind or
\* another exit status than the run refused for --delete with --dry-run
\* alone.
C18_RootAndConflictDistinguishable ==
    (cli.pc = "done" /\ ~isdir(cli.args.directory)
         /\ ~(cli.args.delete /\ cli.args.dry_run) /\ cli.args.min_size >= 0) =>
        [exc |-> cli.exc, exit |-> cli.exit] #
            Refusal([cli.args EXCEPT !.directory = "root", !.delete = TRUE, !.dry_run = TRUE])

\* C19: after an interruption of a scan in mid-traversal the caller holds the
\* groups of two or more paths accumulated until then, and they are reported.
C19_InterruptedScanKeepsGroups ==
    (op = "interrupted_scan" /\ scan.todo # <<>>) =>
        /\ dups = Returned(scan.duplicates)
        /\ (Returned(scan.duplicates) # <<>> => "report" \in Range(cli.out))

\* the processed values the callback was invoked with, in order
ReportedCounts == [k \in 1..Len(scan.calls) |-> scan.calls[k][1]]

\* C20: whatever files a scan with a callback has met, the callback was
\* invoked once for each positive multiple of 100 the count of hashed files
\* has reached, in order, and not otherwise: never with processed = 0,
\* never twice with one value.
C20_CallbackOncePerHundred ==
    op = "progress" =>
        ReportedCounts =
            [k \in 1..(scan.processed_files \div ProgressEvery) |-> k * ProgressEvery]

\* C21: after a scan with a callback has met n files, all of them readable
\* and of size >= min_size, the callback has been invoked n div 100 times,
\* the k-th time with processed = 100 * k (and total = 100 * k, every file
\* met having been hashed); below 100 files it has not been invoked.
C21_CallbackEveryHundredReadable ==
    (op = "progress" /\ scan.total_files = scan.processed_files) =>
        scan.calls =
            [k \in 1..(scan.total_files \div ProgressEvery) |->
                <<k * ProgressEvery, k * ProgressEvery>>]

C21_Witness ==
    /\ op = "progress"
    /\ scan.total_files = 2 * ProgressEvery
    /\ scan.processed_files = 2 * ProgressEvery
    /\ scan.calls = <<<<ProgressEvery, ProgressEvery>>, <<2 * ProgressEvery, 2 * ProgressEvery>>>>

\* in a flat scan: the files hashed with success, and the first of them that
\* has digest h
FlatHashed(p) == fs[p].stat /\ fs[p].read /\ Size(fs[p].content) >= trail.min_size

FirstWith(h) ==
    CHOOSE p \in FlatPaths :
        /\ FlatHashed(p) /\ MD5(fs[p].content) = h
        /\ \A q \in FlatPaths : (FlatHashed(q) /\ MD5(fs[q].content) = h) => p <= q

\* the lines of the report that open a set
SetLines == SelectSeq(report.lines, LAMBDA l : l.kind = "Set")

\* C22: the groups of a scan's result stand in the order in which the first
\* file of each digest was enumerated, and the report numbers its sets
\* 1, 2, ... over the groups in that same order.
C22_GroupsInFirstInsertionOrder ==
    /\ op \in {"find", "report"} =>
           \A i, j \in 1..Len(dups) :
               i < j => FirstWith(dups[i].hash) < FirstWith(dups[j].hash)
    /\ op = "report" =>
           /\ Len(SetLines) = Len(dups)
           /\ \A k \in 1..Len(dups) :
                  /\ SetLines[k].i = k
                  /\ SetLines[k].text = Prefix8(dups[k].hash)

C22_Witness ==
    /\ op = "report"
    /\ fs[1] = Regular("X") /\ fs[2] = Regular("Y") /\ fs[3] = Regular("Y") /\ fs[4] = Regular("X")
    /\ dups = <<[hash |-> MD5("X"), paths |-> <<1, 4>>], [hash |-> MD5("Y"), paths |-> <<2, 3>>]>>
    /\ SetLines[1].text = "02129bb8"
    /\ SetLines[2].text = "57cec413"

TagLines ==
    LET t == SelectSeq(report.lines, LAMBDA l : l.kind \in {"Set", "[KEEP]", "[DUPLICATE]"})
    IN [k \in 1..Len(t) |-> <<t[k].kind, t[k].i>>]

\* the block a report owes group gi: its number, then its paths, the first
\* tagged [KEEP] and the others [DUPLICATE]
BlockOwed(gi) ==
    <<<<"Set", gi>>>> \o
    [j \in 1..Len(dups[gi].paths) |->
        <<IF j = 1 THEN "[KEEP]" ELSE "[DUPLICATE]", dups[gi].paths[j]>>]

RECURSIVE BlocksOwed(_, _)
BlocksOwed(gi, listed) ==
    IF gi > Len(dups) THEN <<>>
    ELSE (IF gi \in listed THEN BlockOwed(gi) ELSE <<>>) \o BlocksOwed(gi + 1, listed)

NoDuplicatesReport ==
    [exc |-> "none", lines |-> <<Line("No duplicate files found!", 0, "", NoSize)>>]

StatableGroups == {gi \in 1..Len(dups) : fs[dups[gi].paths[1]].stat}

\* C24 as stated: the report of any non-empty mapping has one block for every
\* group, as many as its header says, each with its first path tagged
\* [KEEP] and the others [DUPLICATE]; the report of the empty mapping is
\* the no-duplicates message.
C24_ReportListsEveryGroup ==
    op = "report" =>
        /\ dups = <<>> => report = NoDuplicatesReport
        /\ dups # <<>> =>
               /\ report.exc = "none"
               /\ report.lines # <<>>
               /\ report.lines[1].kind = "Found"
               /\ report.lines[1].i = Len(dups)
               /\ Len(SetLines) = report.lines[1].i
               /\ TagLines = BlocksOwed(1, 1..Len(dups))

\* C24, amended: the report of a non-empty mapping without an empty group has
\* the header "Found N" with N the number of groups and one block for each
\* group whose first path can be stat'ed, numbered by the group's place in
\* the mapping, first path [KEEP], others [DUPLICATE]; a group whose first
\* path cannot be stat'ed has no block, so the blocks are N only when every
\* first path can be stat'ed; a mapping with an empty group makes the
\* report raise IndexError; the empty mapping gives the no-duplicates
\* message.
C24_ReportListsStatableGroups ==
    op = "report" =>
        /\ dups = <<>> => report = NoDuplicatesReport
        /\ (dups # <<>> /\ \E gi \in 1..Len(dups) : dups[gi].paths = <<>>) =>
               report = [exc |-> "IndexError", lines |-> <<>>]
        /\ (dups # <<>> /\ \A gi \in 1..Len(dups) : dups[gi].paths # <<>>) =>
               /\ report.exc = "none"
               /\ report.lines[1].kind = "Found"
               /\ report.lines[1].i = Len(dups)
               /\ Len(SetLines) = Cardinality(StatableGroups)
               /\ TagLines = BlocksOwed(1, StatableGroups)

C24_Witness ==
    /\ op = "report"
    /\ Len(dups) = 2
    /\ Len(dups[1].paths) = 2 /\ Len(dups[2].paths) = 2
    /\ ~fs[dups[1].paths[1]].stat
    /\ fs[dups[2].paths[1]].stat
    /\ report.lines[1].i = 2
    /\ TagLines = <<<<"Set", 2>>, <<"[KEEP]", dups[2].paths[1]>>,
                    <<"[DUPLICATE]", dups[2].paths[2]>>>>

\* no path stands at two places of the mapping
DistinctPaths ==
    \A gi, gj \in 1..Len(dups) :
        \A i \in 1..Len(dups[gi].paths) : \A j \in 1..Len(dups[gj].paths) :
            (gi # gj \/ i # j) => dups[gi].paths[i] # dups[gj].paths[j]

\* the groups whose first path could be stat'ed when the call started
StatableBefore == {gi \in 1..Len(dups) : dups[gi].paths # <<>> /\ pre[dups[gi].paths[1]].stat}

\* C25: after delete_duplicates on a mapping of pairwise distinct paths, a
\* group that had an existing member when the call started still has one;
\* a group whose first path could not be stat'ed had no unlink made on it,
\* its files are as they were, and deleted_count and freed_space come from
\* the other groups alone.
C25_LastCopySurvives ==
    (op = "delete" /\ DistinctPaths) =>
        /\ \A gi \in 1..Len(dups) :
               /\ (\E p \in Range(dups[gi].paths) : pre[p].listed)
                      => (\E p \in Range(dups[gi].paths) : fs[p].listed)
               /\ gi \notin StatableBefore =>
                      /\ UnlinksOf(gi) = <<>>
                      /\ \A p \in Range(dups[gi].paths) : fs[p] = pre[p]
        /\ ret.n = SumSeq([gi \in 1..Len(dups) |->
                             IF gi \in StatableBefore THEN OkUnlinks(gi) ELSE 0])
        /\ ret.bytes = SumSeq([gi \in 1..Len(dups) |->
                                 IF gi \in StatableBefore
                                 THEN KeeperSize(gi) * OkUnlinks(gi) ELSE 0])

C25_Witness ==
    /\ op = "delete"
    /\ DistinctPaths
    /\ Len(dups) = 1
    /\ Len(dups[1].paths) = 3
    /\ ~pre[dups[1].paths[1]].stat
    /\ pre[dups[1].paths[2]] = Regular("X")
    /\ fs[dups[1].paths[2]] = Regular("X")
    /\ fs[dups[1].paths[3]] = Regular("WangA")
    /\ ret.n = 0
    /\ ret.bytes = 0

\* C26: in a scan's result no path stands at two places, in one group or in
\* two, no two groups have one key, and every path is a file the traversal
\* enumerated, that could be stat'ed, has size >= min_size, was hashed, and
\* whose digest is the key of its group.
C26_GroupsDisjoint ==
    op = "find" =>
        /\ DistinctPaths
        /\ \A gi, gj \in 1..Len(dups) : gi # gj => dups[gi].hash # dups[gj].hash
        /\ \A gi \in 1..Len(dups) : \A p \in Range(dups[gi].paths) :
               /\ Candidate(p)
               /\ p \in Range(scan.hashed)
               /\ calculate_file_hash(fs, p) = dups[gi].hash

C26_Witness ==
    /\ op = "find"
    /\ trail.min_size = 1
    /\ Len(dups) = 1
    /\ \E a, b, c \in Paths :
           /\ a < b
           /\ dups[1].paths = <<a, b>>
           /\ c \notin {a, b}
           /\ fs[c] = Regular("")
           /\ Scanned(c)
    /\ scan.total_files = 3

\* when the call started every path of the mapping was an existing file
\* that could be removed
AllRemovableBefore ==
    \A gi \in 1..Len(dups) : \A p \in Range(dups[gi].paths) :
        pre[p].listed /\ pre[p].stat /\ pre[p].unlink

NoEmptyGroup == \A gi \in 1..Len(dups) : dups[gi].paths # <<>>

\* C27 as stated: after delete_duplicates on any mapping of pairwise distinct
\* paths, all of them existing files whose unlink succeeds, freed_space is
\* the reclaimable space analyze_duplicates returns for the mapping on the
\* tree as it was when the call started, and deleted_count is the sum over
\* the groups of (length - 1).
C27_EstimateEqualsEffect ==
    (op = "delete" /\ DistinctPaths /\ AllRemovableBefore) =>
        /\ analyze_duplicates(pre, dups).exc = "none"
        /\ ret.bytes = analyze_duplicates(pre, dups).bytes
        /\ ret.n = SumSeq([gi \in 1..Len(dups) |-> Len(dups[gi].paths) - 1])

\* C27, amended: the same for the mappings without an empty group; on a
\* mapping with an empty group analyze_duplicates raises IndexError, while
\* delete_duplicates passes over the empty group and returns the count of
\* its successful unlinks, the sum over the non-empty groups of
\* (length - 1).
C27_EstimateEqualsEffectNonEmpty ==
    (op = "delete" /\ DistinctPaths /\ AllRemovableBefore) =>
        /\ NoEmptyGroup =>
               /\ analyze_duplicates(pre, dups).exc = "none"
               /\ ret.bytes = analyze_duplicates(pre, dups).bytes
               /\ ret.n = SumSeq([gi \in 1..Len(dups) |-> Len(dups[gi].paths) - 1])
        /\ ~NoEmptyGroup =>
               /\ analyze_duplicates(pre, dups).exc = "IndexError"
               /\ ret.n = SumSeq([gi \in 1..Len(dups) |->
                                    IF dups[gi].paths = <<>> THEN 0
                                    ELSE Len(dups[gi].paths) - 1])
        /\ \A k \in 1..Len(log) : log[k].ok

C27_Witness ==
    /\ op = "delete"
    /\ DistinctPaths
    /\ AllRemovableBefore
    /\ Len(dups) = 1
    /\ Len(dups[1].paths) = 2
    /\ pre[dups[1].paths[1]] = Regular("WangA")
    /\ pre[dups[1].paths[2]] = Regular("X")
    /\ ret.n = 1
    /\ ret.bytes = Size("WangA")
    /\ analyze_duplicates(pre, dups).bytes = Size("WangA")

====
